---- MODULE Spec2Model ----
(***************************************************************************)
(* A model of the constraint-satisfaction engine of src/csp.js:           *)
(* normalisation and validation, the backtracking search driver, AC-3,    *)
(* GAC with its support oracle, and the two ordering heuristics.           *)
(*                                                                         *)
(* A JavaScript object with array values (a "domain mapping") is a TLA+    *)
(* function from a set of variable names to sequences of values.  The      *)
(* enumeration order of its keys (for ... in) is the order in which the    *)
(* names were declared: every mapping of the program is built by copying   *)
(* keys of an older one in that order, so the order is that of Names.     *)
(* Variable names are ordinary identifiers (own keys of the mappings).     *)
(***************************************************************************)
EXTENDS Integers, Sequences, FiniteSets, TLC

\* ------------------------------------------------------------------ bounds
\* Domain values are 1..MaxVal.
MaxVal == 2
\* Largest number of binary constraints, and of n-ary constraints, of an input.
MaxBin == 2
MaxNary == 1

\* ------------------------------------------------------------- the inputs
\* The declared variables, in declaration order, and a name never declared.
Names == <<"x", "y", "z">>
Undeclared == "w"
NameSet == {Names[i] : i \in 1..Len(Names)}

FAILURE == "FAILURE"

\* Position of a name in the declaration order (key enumeration order).
Pos(k) == CHOOSE i \in 1..Len(Names) : Names[i] = k

\* The keys of a mapping, in enumeration order.
RECURSIVE KeysFrom(_, _)
KeysFrom(m, i) ==
  IF i > Len(Names) THEN <<>>
  ELSE (IF Names[i] \in DOMAIN m THEN <<Names[i]>> ELSE <<>>) \o KeysFrom(m, i + 1)
Keys(m) == KeysFrom(m, 1)

\* delete m[k]
Delete(m, k) == [j \in (DOMAIN m) \ {k} |-> m[j]]
\* m[k] = v  (adds the key when it is absent)
Put(m, k, v) == [j \in (DOMAIN m) \cup {k} |-> IF j = k THEN v ELSE m[j]]
EmptyMap == [j \in {} |-> <<>>]

\* Array.prototype.filter
Filter(s, Keep(_)) == SelectSeq(s, Keep)

Range(s) == {s[i] : i \in 1..Len(s)}

\* --------------------------------------------------------- the predicates
\* A predicate is an opaque callable of the caller; the model names a few.
\* "none" stands for a predicate that is missing or not a function.
\* Binary predicates take (head value, tail value).
Pred2(p, h, t) ==
  CASE p = "lt"  -> h < t
    [] p = "neq" -> h # t
    [] p = "eq"  -> h = t
    [] OTHER     -> FALSE

\* N-ary predicates take the mapping participant -> value and answer
\* "T" (truthy), "F" (falsy) or "E" (the call raises an error).
RECURSIVE SumOf(_, _)
SumOf(a, ks) == IF ks = {} THEN 0
                ELSE LET k == CHOOSE j \in ks : TRUE IN a[k] + SumOf(a, ks \ {k})
AllDiff(a) == \A j, k \in DOMAIN a : j # k => a[j] # a[k]
PredN(p, a) ==
  CASE p = "alldiff" -> IF AllDiff(a) THEN "T" ELSE "F"
    [] p = "sumodd"  -> IF SumOf(a, DOMAIN a) % 2 = 1 THEN "T" ELSE "F"
    [] p = "throws"  -> IF \A k \in DOMAIN a : a[k] = 1 THEN "E"
                        ELSE IF AllDiff(a) THEN "T" ELSE "F"
    [] OTHER         -> "F"

\* ------------------------------------------- validation and normalisation
IsFunction(p) == p # "none"

normalizeProblem(raw) ==
  [ variables |-> [k \in DOMAIN raw.variables |->
                     [isArray |-> TRUE,
                      vals |-> IF raw.variables[k].isArray THEN raw.variables[k].vals
                               ELSE <<>>]],
    constraints |-> LET ok(c) == IsFunction(c.pred) IN Filter(raw.constraints, ok),
    naryConstraints |-> LET ok(C) == IsFunction(C.pred) IN Filter(raw.naryConstraints, ok),
    timeStep |-> IF raw.timeStep = 0 THEN 1 ELSE raw.timeStep,
    cb |-> raw.cb ]

NoError == [kind |-> "none", name |-> ""]
Err(kind, name) == [kind |-> kind, name |-> name]

\* The first error validateProblem throws on the binary constraints cs, if any.
RECURSIVE validateBinary(_, _)
validateBinary(cs, varsSet) ==
  IF cs = <<>> THEN NoError
  ELSE LET c == Head(cs) IN
       IF c.head \notin varsSet THEN Err("UnknownVariable", c.head)
       ELSE IF c.tail \notin varsSet THEN Err("UnknownVariable", c.tail)
       ELSE IF ~IsFunction(c.pred) THEN Err("MissingPredicate", "")
       ELSE validateBinary(Tail(cs), varsSet)

RECURSIVE validateNary(_, _)
validateNary(Cs, varsSet) ==
  IF Cs = <<>> THEN NoError
  ELSE LET C == Head(Cs)
           unknown == {i \in 1..Len(C.vars) : C.vars[i] \notin varsSet}
       IN IF Len(C.vars) = 0 THEN Err("MissingVars", "")
          ELSE IF unknown # {}
               THEN Err("UnknownVariable", C.vars[CHOOSE i \in unknown : \A j \in unknown : i <= j])
          ELSE IF ~IsFunction(C.pred) THEN Err("MissingPredicate", "")
          ELSE validateNary(Tail(Cs), varsSet)

\* The outcome of validateProblem: NoError, or the error it throws.
FirstError(notArray, b, csp) ==
  IF notArray # <<>> THEN Err("InvalidDomain", Head(notArray))
  ELSE IF b.kind # "none" THEN b
  ELSE validateNary(csp.naryConstraints, DOMAIN csp.variables)
validateProblem(csp) ==
  FirstError(SelectSeq(Keys(csp.variables), LAMBDA k : ~csp.variables[k].isArray),
             validateBinary(csp.constraints, DOMAIN csp.variables), csp)

\* ------------------------------------------------- cloning and checks
\* The domains of a normalised problem as arrays.
arrays(variables) == [k \in DOMAIN variables |-> variables[k].vals]
cloneVars(variables) == [k \in DOMAIN variables |-> variables[k]]
cloneAssignment(assigned) == [k \in DOMAIN assigned |-> assigned[k]]
\* finished as it would be if it looked for values left to try.
finishedNoValues(unassigned) == \A k \in DOMAIN unassigned : Len(unassigned[k]) = 0
finished(unassigned) == DOMAIN unassigned = {}
\* anyEmpty as it would be with the comparison off by one.
anyEmptyOffByOne(vars) == \E k \in DOMAIN vars : Len(vars[k]) <= 1
anyEmpty(vars) == \E k \in DOMAIN vars : Len(vars[k]) = 0
\* The keys of unassigned, overwritten by those of assigned.
partialAssignment(assigned, unassigned) ==
  [k \in (DOMAIN unassigned) \cup (DOMAIN assigned) |->
     IF k \in DOMAIN assigned THEN assigned[k] ELSE unassigned[k]]

\* ------------------------------------------------------------------ AC-3
incomingConstraints(constraints, node) ==
  LET isHead(c) == c.head = node IN Filter(constraints, isHead)

\* [removed, vars]: the tail values without a supporting head value are gone.
Revised(tv, validTailValues, tail, vars) ==
  [removed |-> Len(validTailValues) # Len(tv),
   vars |-> [vars EXCEPT ![tail] = validTailValues]]
\* removeInconsistentValues as it would be with the predicate's arguments
\* swapped.
removeInconsistentValuesSwapped(head, tail, predicate, vars) ==
  IF head \notin DOMAIN vars \/ tail \notin DOMAIN vars
  THEN [removed |-> FALSE, vars |-> vars]
  ELSE LET supported(t) == \E i \in 1..Len(vars[head]) : Pred2(predicate, t, vars[head][i])
       IN Revised(vars[tail], Filter(vars[tail], supported), tail, vars)
\* The revision as it would be if a tail value needed every head value's consent.
removeInconsistentValuesAll(head, tail, predicate, vars) ==
  IF head \notin DOMAIN vars \/ tail \notin DOMAIN vars
  THEN [removed |-> FALSE, vars |-> vars]
  ELSE LET supported(t) == \A i \in 1..Len(vars[head]) : Pred2(predicate, vars[head][i], t)
       IN Revised(vars[tail], Filter(vars[tail], supported), tail, vars)
removeInconsistentValues(head, tail, predicate, vars) ==
  IF head \notin DOMAIN vars \/ tail \notin DOMAIN vars
  THEN [removed |-> FALSE, vars |-> vars]
  ELSE LET supported(t) == \E i \in 1..Len(vars[head]) : Pred2(predicate, vars[head][i], t)
       IN Revised(vars[tail], Filter(vars[tail], supported), tail, vars)

\* One turn of the while loop of runAC3: the queue's first arc is taken off
\* and revised.  status is "run" (go on) or "fail" (return false).
\* The turn as it would be if any removal made runAC3 return false.
AfterReviseAnyRemoval(r, tail, rest, constraints) ==
  IF r.removed
  THEN [vars |-> r.vars, queue |-> rest, status |-> "fail"]
  ELSE [vars |-> r.vars, queue |-> rest, status |-> "run"]
\* The turn as it would be without re-enqueuing the constraints on the tail.
AfterReviseNoRequeue(r, tail, rest, constraints) ==
  IF r.removed /\ Len(r.vars[tail]) = 0
  THEN [vars |-> r.vars, queue |-> rest, status |-> "fail"]
  ELSE [vars |-> r.vars, queue |-> rest, status |-> "run"]
\* The turn as it would be if an emptied domain were deleted from the mapping.
AfterReviseDeleteEmpty(r, tail, rest, constraints) ==
  IF r.removed
  THEN IF Len(r.vars[tail]) = 0
       THEN [vars |-> Delete(r.vars, tail), queue |-> rest, status |-> "fail"]
       ELSE [vars |-> r.vars, queue |-> rest \o incomingConstraints(constraints, tail),
             status |-> "run"]
  ELSE [vars |-> r.vars, queue |-> rest, status |-> "run"]
AfterRevise(r, tail, rest, constraints) ==
  IF r.removed
  THEN IF Len(r.vars[tail]) = 0
       THEN [vars |-> r.vars, queue |-> rest, status |-> "fail"]
       ELSE [vars |-> r.vars, queue |-> rest \o incomingConstraints(constraints, tail),
             status |-> "run"]
  ELSE [vars |-> r.vars, queue |-> rest, status |-> "run"]
AC3Pop(vars, q, constraints) ==
  IF Head(q).head \notin DOMAIN vars \/ Head(q).tail \notin DOMAIN vars
  THEN [vars |-> vars, queue |-> Tail(q), status |-> "run"]
  ELSE AfterRevise(removeInconsistentValues(Head(q).head, Head(q).tail, Head(q).pred, vars),
                   Head(q).tail, Tail(q), constraints)

RECURSIVE AC3Loop(_, _, _)
AC3Continue(n, constraints) ==
  IF n.status = "fail" THEN [ok |-> FALSE, vars |-> n.vars]
  ELSE AC3Loop(n.vars, n.queue, constraints)
AC3Loop(vars, q, constraints) ==
  IF q = <<>> THEN [ok |-> TRUE, vars |-> vars]
  ELSE AC3Continue(AC3Pop(vars, q, constraints), constraints)

runAC3(variables, constraints) == AC3Loop(variables, constraints, constraints)

\* ------------------------------------------------------ GAC and its oracle
\* var -> the n-ary constraints (their positions in the list) that name it,
\* once for every occurrence.
RECURSIVE Occurrences(_, _)
Occurrences(vs, v) ==
  IF vs = <<>> THEN 0
  ELSE (IF Head(vs) = v THEN 1 ELSE 0) + Occurrences(Tail(vs), v)
RECURSIVE Repeat(_, _)
Repeat(e, n) == IF n = 0 THEN <<>> ELSE <<e>> \o Repeat(e, n - 1)
RECURSIVE IndexOf(_, _, _)
IndexOf(naryConstraints, v, i) ==
  IF i > Len(naryConstraints) THEN <<>>
  ELSE Repeat(i, Occurrences(naryConstraints[i].vars, v))
       \o IndexOf(naryConstraints, v, i + 1)
buildNaryIndex(naryConstraints) ==
  [v \in NameSet \cup {Undeclared} |-> IndexOf(naryConstraints, v, 1)]

\* others.sort by domain size: a stable sort.
InsertBySize(init, v, variables) ==
  LET n == Cardinality({i \in 1..Len(init) :
                          Len(variables[init[i]]) <= Len(variables[v])})
  IN SubSeq(init, 1, n) \o <<v>> \o SubSeq(init, n + 1, Len(init))
RECURSIVE SortBySize(_, _)
SortBySize(others, variables) ==
  IF others = <<>> THEN <<>>
  ELSE InsertBySize(SortBySize(SubSeq(others, 1, Len(others) - 1), variables),
                    others[Len(others)], variables)

\* The search as it would be if only the first value of each domain were tried.
RECURSIVE dfsFirstOnly(_, _, _, _, _)
dfsFirstOnly(i, order, domains, assign, C) ==
  IF i > Len(order) THEN PredN(C.pred, assign) = "T"
  ELSE /\ Len(domains[i]) > 0
       /\ dfsFirstOnly(i + 1, order, domains, Put(assign, order[i], domains[i][1]), C)
\* The search as it would be if a raising predicate counted as satisfied.
RECURSIVE dfsRaiseSatisfies(_, _, _, _, _)
dfsRaiseSatisfies(i, order, domains, assign, C) ==
  IF i > Len(order) THEN PredN(C.pred, assign) \in {"T", "E"}
  ELSE \E k \in 1..Len(domains[i]) :
         dfsRaiseSatisfies(i + 1, order, domains, Put(assign, order[i], domains[i][k]), C)
\* dfs(i) of hasSupport: order[i..] still to be given a value.
RECURSIVE dfs(_, _, _, _, _)
dfs(i, order, domains, assign, C) ==
  IF i > Len(order) THEN PredN(C.pred, assign) = "T"
  ELSE \E k \in 1..Len(domains[i]) :
         dfs(i + 1, order, domains, Put(assign, order[i], domains[i][k]), C)

SearchTuples(focusVar, focusVal, C, variables, sorted) ==
  dfs(1, <<focusVar>> \o sorted,
      <<(<<focusVal>>)>> \o [i \in 1..Len(sorted) |-> variables[sorted[i]]],
      [j \in {} |-> 0], C)
SupportAmong(focusVar, focusVal, C, variables, others) ==
  IF \E i \in 1..Len(others) :
        others[i] \notin DOMAIN variables \/ Len(variables[others[i]]) = 0
  THEN FALSE
  ELSE SearchTuples(focusVar, focusVal, C, variables, SortBySize(others, variables))
hasSupport(focusVar, focusVal, C, variables) ==
  LET notFocus(v) == v # focusVar
  IN SupportAmong(focusVar, focusVal, C, variables, Filter(C.vars, notFocus))

\* The for loop of runGAC over the participants of C, from position vi on.
RECURSIVE PruneParticipants(_, _, _, _)
PruneOne(vi, C, variables, changedAny, dom, newDom) ==
  IF Len(newDom) # Len(dom)
  THEN IF Len(newDom) = 0
       THEN [vars |-> [variables EXCEPT ![C.vars[vi]] = newDom],
             changedAny |-> TRUE, failed |-> TRUE]
       ELSE PruneParticipants(vi + 1, C, [variables EXCEPT ![C.vars[vi]] = newDom], TRUE)
  ELSE PruneParticipants(vi + 1, C, variables, changedAny)
PruneParticipants(vi, C, variables, changedAny) ==
  IF vi > Len(C.vars) THEN [vars |-> variables, changedAny |-> changedAny, failed |-> FALSE]
  ELSE IF C.vars[vi] \notin DOMAIN variables
       THEN PruneParticipants(vi + 1, C, variables, changedAny)
       ELSE LET keep(val) == hasSupport(C.vars[vi], val, C, variables)
            IN PruneOne(vi, C, variables, changedAny, variables[C.vars[vi]],
                        Filter(variables[C.vars[vi]], keep))

\* queue.push(Rc) for every Rc of related that is not in the queue.
RECURSIVE PushAbsent(_, _)
PushAbsent(q, related) ==
  IF related = <<>> THEN q
  ELSE PushAbsent(IF Head(related) \in Range(q) THEN q ELSE Append(q, Head(related)),
                  Tail(related))
RECURSIVE RelatedOf(_, _)
RelatedOf(vs, index) ==
  IF vs = <<>> THEN <<>> ELSE index[Head(vs)] \o RelatedOf(Tail(vs), index)

\* One turn of the while loop of runGAC.  The queue holds constraints by
\* their position in csp.naryConstraints (their identity).
\* The turn as it would be without re-enqueuing the related constraints.
AfterPruneNoRequeue(r, C, rest, csp) ==
  IF r.failed THEN [vars |-> r.vars, queue |-> rest, status |-> "fail"]
  ELSE [vars |-> r.vars, queue |-> rest, status |-> "run"]
AfterPrune(r, C, rest, csp) ==
  IF r.failed THEN [vars |-> r.vars, queue |-> rest, status |-> "fail"]
  ELSE IF r.changedAny
       THEN [vars |-> r.vars,
             queue |-> PushAbsent(rest, RelatedOf(C.vars, csp.naryIndex)),
             status |-> "run"]
       ELSE [vars |-> r.vars, queue |-> rest, status |-> "run"]
GACPop(vars, q, csp) ==
  IF ~IsFunction(csp.naryConstraints[Head(q)].pred)
  THEN [vars |-> vars, queue |-> Tail(q), status |-> "run"]
  ELSE AfterPrune(PruneParticipants(1, csp.naryConstraints[Head(q)], vars, FALSE),
                  csp.naryConstraints[Head(q)], Tail(q), csp)

RECURSIVE GACLoop(_, _, _)
GACContinue(n, csp) ==
  IF n.status = "fail" THEN [ok |-> FALSE, vars |-> n.vars]
  ELSE GACLoop(n.vars, n.queue, csp)
GACLoop(vars, q, csp) ==
  IF q = <<>> THEN [ok |-> TRUE, vars |-> vars]
  ELSE GACContinue(GACPop(vars, q, csp), csp)

AllNary(csp) == [i \in 1..Len(csp.naryConstraints) |-> i]
runGAC(variables, csp) == GACLoop(variables, AllNary(csp), csp)

\* ------------------------------------------------------ enforceConsistency
\* [ok, vars]: ok = FALSE is the FAILURE sentinel.
ThenGAC(a, csp) ==
  IF ~a.ok THEN a
  ELSE IF Len(csp.naryConstraints) > 0 THEN runGAC(a.vars, csp)
  ELSE a
PassOver(variables, csp) ==
  ThenGAC(IF Len(csp.constraints) > 0 THEN runAC3(variables, csp.constraints)
          ELSE [ok |-> TRUE, vars |-> variables], csp)
enforceConsistency(assigned, unassigned, csp) ==
  PassOver(partialAssignment(assigned, unassigned), csp)

\* -------------------------------------------------------------- heuristics
NullKey == "null"
Infinity == -1
LessThan(len, minLen) == minLen = Infinity \/ len < minLen

\* The for loop of selectUnassignedVariable over the keys still to visit.
RECURSIVE ScanKeys(_, _, _, _)
ScanKeys(keys, unassigned, minKey, minLen) ==
  IF keys = <<>> THEN minKey
  ELSE IF LessThan(Len(unassigned[Head(keys)]), minLen)
       THEN IF Len(unassigned[Head(keys)]) = 1 THEN Head(keys)
            ELSE ScanKeys(Tail(keys), unassigned, Head(keys), Len(unassigned[Head(keys)]))
       ELSE ScanKeys(Tail(keys), unassigned, minKey, minLen)

selectUnassignedVariable(unassigned) ==
  ScanKeys(Keys(unassigned), unassigned, NullKey, Infinity)

RECURSIVE SumLen(_, _)
SumLen(vars, ks) ==
  IF ks = <<>> THEN 0 ELSE Len(vars[Head(ks)]) + SumLen(vars, Tail(ks))
countValues(vars) == SumLen(vars, Keys(vars))

\* -Infinity, the score of an eliminated value, is below every count.
Eliminated == -1

\* score[val] of orderValues.
Score(res) ==
  IF ~res.ok \/ anyEmpty(res.vars) THEN Eliminated ELSE countValues(res.vars)
scoreOf(val, nextKey, assigned, unassigned, csp) ==
  Score(enforceConsistency(Put(cloneAssignment(assigned), nextKey, <<val>>),
                           Delete(cloneVars(unassigned), nextKey), csp))

\* baseValues.sort((a, b) => score[b] - score[a]): stable, descending.
\* The insertion as it would be for a sort by ascending score.
InsertByScoreAscending(init, v, score) ==
  LET n == Cardinality({i \in 1..Len(init) : score[init[i]] <= score[v]})
  IN SubSeq(init, 1, n) \o <<v>> \o SubSeq(init, n + 1, Len(init))
InsertByScore(init, v, score) ==
  LET n == Cardinality({i \in 1..Len(init) : score[init[i]] >= score[v]})
  IN SubSeq(init, 1, n) \o <<v>> \o SubSeq(init, n + 1, Len(init))
RECURSIVE SortByScore(_, _)
SortByScore(vals, score) ==
  IF vals = <<>> THEN <<>>
  ELSE InsertByScore(SortByScore(SubSeq(vals, 1, Len(vals) - 1), score),
                     vals[Len(vals)], score)

OrderBase(baseValues, nextKey, assigned, unassigned, csp) ==
  IF Len(baseValues) <= 1 THEN baseValues
  ELSE SortByScore(baseValues,
                   [val \in Range(baseValues) |->
                      scoreOf(val, nextKey, assigned, unassigned, csp)])
orderValues(nextKey, assigned, unassigned, csp) ==
  OrderBase(IF nextKey \in DOMAIN unassigned THEN unassigned[nextKey] ELSE <<>>,
            nextKey, assigned, unassigned, csp)

\* ------------------------------------------------------------------ state
VARIABLES
  input,        \* the problem description handed to CSP.solve
  csp,          \* the normalised problem (with its _naryIndex)
  pc,           \* "idle", "search", "done", "error"; "ce" for the engine alone
  stack,        \* the frames of backtrack, innermost last
  ret,          \* the value the innermost finished call of backtrack returned
  result,       \* what CSP.solve returned or threw
  stepCounter,  \* the module-level counter
  timers,       \* the callbacks handed to setTimeout, in scheduling order
  pass,         \* the call of enforceConsistency under way: its phase ("idle",
                \* "ac3", "gac", "ok", "fail"), the mapping it works on, the
                \* queue of runAC3 and the queue of runGAC
  passes,       \* results of the finished passes of the engine run alone
  delivered,    \* the callbacks of timers that have run, in the order they ran
  earlier       \* the calls of CSP.solve that returned before the present one

vars == <<input, csp, pc, stack, ret, result, stepCounter, timers, pass, passes, delivered, earlier>>

NoRet == [kind |-> "none", val |-> EmptyMap]
RetFailure == [kind |-> FAILURE, val |-> EmptyMap]
RetAssignment(a) == [kind |-> "assignment", val |-> a]
NoResult == [kind |-> "none", val |-> EmptyMap, err |-> NoError]
Undefined == 0

Frame(assigned, unassigned, uref) ==
  [at |-> "enter", assigned |-> assigned, unassigned |-> unassigned,
   nextKey |-> NullKey, values |-> <<>>, i |-> 0, savedDom |-> <<>>, uref |-> uref]

Top == stack[Len(stack)]
SetTop(f) == [stack EXCEPT ![Len(stack)] = f]
Pop == SubSeq(stack, 1, Len(stack) - 1)

\* The object a frame got as `unassigned` is the newUnassigned its caller
\* gave to the pending callback timers[uref] (uref = 0: to no callback).
\* A timer keeps, beside the objects A and U its callback will be called
\* with, the value `split` that U had when the timer was set.
Shared(uref, unassigned) ==
  IF uref = 0 THEN timers ELSE [timers EXCEPT ![uref].U = unassigned]

\* The pass at its start over vs, after AC-3 succeeded, and after a pop.
Idle == [phase |-> "idle", variables |-> EmptyMap, queue |-> <<>>, naryQueue |-> <<>>]
AfterAC3(vs, c) ==
  IF Len(c.naryConstraints) > 0
  THEN [phase |-> "gac", variables |-> vs, queue |-> <<>>, naryQueue |-> AllNary(c)]
  ELSE [phase |-> "ok", variables |-> vs, queue |-> <<>>, naryQueue |-> <<>>]
StartPass(vs, c) ==
  IF Len(c.constraints) > 0
  THEN [phase |-> "ac3", variables |-> vs, queue |-> c.constraints, naryQueue |-> <<>>]
  ELSE AfterAC3(vs, c)
AfterAC3Pop(n, c) ==
  IF n.status = "fail"
  THEN [phase |-> "fail", variables |-> n.vars, queue |-> n.queue, naryQueue |-> <<>>]
  ELSE IF n.queue = <<>> THEN AfterAC3(n.vars, c)
  ELSE [phase |-> "ac3", variables |-> n.vars, queue |-> n.queue, naryQueue |-> <<>>]
AfterGACPop(n) ==
  [phase |-> IF n.status = "fail" THEN "fail" ELSE IF n.queue = <<>> THEN "ok" ELSE "gac",
   variables |-> n.vars, queue |-> <<>>, naryQueue |-> n.queue]

\* CSP.solve up to its call of backtrack.
Prepared(n) == n @@ [naryIndex |-> buildNaryIndex(n.naryConstraints)]
Unprepared(n) == n @@ [naryIndex |-> buildNaryIndex(<<>>)]
Checked == validateProblem(normalizeProblem(input))
Solve ==
  /\ pc = "idle"
  /\ csp' = IF Checked.kind # "none" THEN Unprepared(normalizeProblem(input))
            ELSE Prepared(normalizeProblem(input))
  /\ pc' = IF Checked.kind # "none" THEN "error" ELSE "search"
  /\ result' = IF Checked.kind # "none"
               THEN [kind |-> "error", val |-> EmptyMap, err |-> Checked]
               ELSE result
  /\ stack' = IF Checked.kind # "none" THEN <<>>
              ELSE <<Frame(EmptyMap, cloneVars(arrays(normalizeProblem(input).variables)), 0)>>
  /\ UNCHANGED <<input, ret, stepCounter, timers, pass, passes, delivered, earlier>>

\* backtrack from its entry to the head of its for loop.
Chosen == selectUnassignedVariable(Top.unassigned)
Looping ==
  [Top EXCEPT !.at = "loop", !.assigned = cloneAssignment(Top.assigned),
              !.nextKey = Chosen,
              !.values = orderValues(Chosen, cloneAssignment(Top.assigned),
                                     Top.unassigned, csp),
              !.i = 1,
              !.savedDom = Top.unassigned[Chosen],
              !.unassigned = Delete(Top.unassigned, Chosen)]
EnterEnabled == pc = "search" /\ stack # <<>> /\ Top.at = "enter"
Enter ==
  /\ EnterEnabled
  /\ stack' = IF finished(Top.unassigned) THEN Pop
              ELSE IF Chosen = NullKey THEN Pop
              ELSE SetTop(Looping)
  /\ ret' = IF finished(Top.unassigned) THEN RetAssignment(cloneAssignment(Top.assigned))
            ELSE IF Chosen = NullKey THEN RetFailure
            ELSE ret
  /\ timers' = IF finished(Top.unassigned) THEN timers
               ELSE IF Chosen = NullKey THEN timers
               ELSE Shared(Top.uref, Delete(Top.unassigned, Chosen))
  /\ UNCHANGED <<input, csp, pc, result, stepCounter, pass, passes, delivered, earlier>>

\* One turn of the for loop up to the call of enforceConsistency.
Tentative == Put(Top.assigned, Top.nextKey, <<Top.values[Top.i]>>)
Try ==
  /\ pc = "search" /\ stack # <<>> /\ Top.at = "loop" /\ Top.i <= Len(Top.values)
  /\ stepCounter' = stepCounter + 1
  /\ stack' = SetTop([Top EXCEPT !.at = "consistency", !.assigned = Tentative])
  /\ pass' = StartPass(partialAssignment(Tentative, Top.unassigned), csp)
  /\ UNCHANGED <<input, csp, pc, ret, result, timers, passes, delivered, earlier>>

\* One turn of the while loop of runAC3.
AC3Step ==
  /\ pass.phase = "ac3"
  /\ pass' = AfterAC3Pop(AC3Pop(pass.variables, pass.queue, csp.constraints), csp)
  /\ UNCHANGED <<input, csp, pc, stack, ret, result, stepCounter, timers, passes, delivered, earlier>>

\* One turn of the while loop of runGAC.
GACStep ==
  /\ pass.phase = "gac"
  /\ pass' = AfterGACPop(GACPop(pass.variables, pass.naryQueue, csp))
  /\ UNCHANGED <<input, csp, pc, stack, ret, result, stepCounter, timers, passes, delivered, earlier>>

\* The rest of the turn once enforceConsistency has returned: the split, the
\* callback, and the recursive call.
\* The next turn as it would be if the pass had pruned the frame's own
\* unassigned domains in place.
NextValueInPlace ==
  SetTop([Top EXCEPT !.at = "loop", !.i = Top.i + 1,
                     !.assigned = Delete(Top.assigned, Top.nextKey),
                     !.unassigned = [k \in DOMAIN Top.unassigned |->
                                       IF k \in DOMAIN pass.variables
                                       THEN pass.variables[k]
                                       ELSE Top.unassigned[k]]])
NextValue == SetTop([Top EXCEPT !.at = "loop", !.i = Top.i + 1,
                       !.assigned = Delete(Top.assigned, Top.nextKey)])
\* The split as it would be if the variable just assigned went to neither part.
NewAssignedInherited ==
  [k \in {j \in DOMAIN pass.variables : j \in DOMAIN Top.assigned \ {Top.nextKey}} |->
     pass.variables[k]]
NewAssigned ==
  [k \in {j \in DOMAIN pass.variables : j \in DOMAIN Top.assigned} |-> pass.variables[k]]
\* The split as it would be if every variable went to newUnassigned.
NewUnassignedAll == [k \in DOMAIN pass.variables |-> pass.variables[k]]
NewUnassigned ==
  [k \in {j \in DOMAIN pass.variables : j \notin DOMAIN Top.assigned} |-> pass.variables[k]]
\* The delay as it would be without the step counter.
DelayFlat == csp.timeStep
\* The delay the notification of the present tentative assignment is given.
Delay == stepCounter * csp.timeStep
\* The rest of the turn as it would be if, with a callback configured, the
\* loop went on to its next value once the notification is scheduled.
BranchNotifyOnly ==
  /\ pc = "search" /\ stack # <<>> /\ Top.at = "consistency"
  /\ pass.phase \in {"ok", "fail"}
  /\ pass' = Idle
  /\ timers' = IF pass.phase = "ok" /\ csp.cb
               THEN Append(timers, [delay |-> Delay,
                                    A |-> NewAssigned, U |-> NewUnassigned,
                                    split |-> NewUnassigned])
               ELSE timers
  /\ stack' = IF pass.phase = "fail" \/ csp.cb THEN NextValue
              ELSE IF anyEmpty(pass.variables) THEN NextValue
              ELSE Append(SetTop([Top EXCEPT !.at = "call"]),
                          Frame(NewAssigned, NewUnassigned, 0))
  /\ UNCHANGED <<input, csp, pc, ret, result, stepCounter, passes, delivered, earlier>>
Branch ==
  /\ pc = "search" /\ stack # <<>> /\ Top.at = "consistency"
  /\ pass.phase \in {"ok", "fail"}
  /\ pass' = Idle
  /\ timers' = IF pass.phase = "ok" /\ csp.cb
               THEN Append(timers, [delay |-> Delay,
                                    A |-> NewAssigned, U |-> NewUnassigned,
                                    split |-> NewUnassigned])
               ELSE timers
  /\ stack' = IF pass.phase = "fail" THEN NextValue
              ELSE IF anyEmpty(pass.variables) THEN NextValue
              ELSE Append(SetTop([Top EXCEPT !.at = "call"]),
                          Frame(NewAssigned, NewUnassigned,
                                IF csp.cb THEN Len(timers) + 1 ELSE 0))
  /\ UNCHANGED <<input, csp, pc, ret, result, stepCounter, passes, delivered, earlier>>

\* The recursive call has returned.
Resume ==
  /\ pc = "search" /\ stack # <<>> /\ Top.at = "call" /\ ret.kind # "none"
  /\ stack' = IF ret.kind # FAILURE THEN Pop ELSE NextValue
  /\ ret' = IF ret.kind # FAILURE THEN ret ELSE NoRet
  /\ UNCHANGED <<input, csp, pc, result, stepCounter, timers, pass, passes, delivered, earlier>>

\* The for loop is over: restore unassigned and return FAILURE.
Exhausted ==
  /\ pc = "search" /\ stack # <<>> /\ Top.at = "loop" /\ Top.i > Len(Top.values)
  /\ timers' = Shared(Top.uref, Put(Top.unassigned, Top.nextKey, Top.savedDom))
  /\ stack' = Pop
  /\ ret' = RetFailure
  /\ UNCHANGED <<input, csp, pc, result, stepCounter, pass, passes, delivered, earlier>>

\* CSP.solve after backtrack returned: FAILURE, or the unwrapped assignment.
\* The unwrapping as it would be with the index off by one (v[1]).
UnwrapSecond(a) == [k \in DOMAIN a |-> IF Len(a[k]) > 1 THEN a[k][2] ELSE Undefined]
Unwrap(a) == [k \in DOMAIN a |-> IF Len(a[k]) > 0 THEN a[k][1] ELSE Undefined]
Finish ==
  /\ pc = "search" /\ stack = <<>> /\ ret.kind # "none"
  /\ pc' = "done"
  /\ result' = IF ret.kind = FAILURE
               THEN [kind |-> FAILURE, val |-> EmptyMap, err |-> NoError]
               ELSE [kind |-> "assignment", val |-> Unwrap(ret.val), err |-> NoError]
  /\ ret' = NoRet
  /\ UNCHANGED <<input, csp, stack, stepCounter, timers, pass, passes, delivered, earlier>>

\* A callback handed to setTimeout runs once CSP.solve has returned: the
\* pending timer with the least delay, the one set first among equal delays.
Pending == {i \in 1..Len(timers) : i \notin Range(delivered)}
Due(i) ==
  \A j \in Pending :
     \/ timers[i].delay < timers[j].delay
     \/ timers[i].delay = timers[j].delay /\ i <= j
Deliver ==
  /\ pc = "done" /\ stack = <<>>
  /\ \E i \in Pending : Due(i) /\ delivered' = Append(delivered, i)
  /\ UNCHANGED <<input, csp, pc, stack, ret, result, stepCounter, timers, pass, passes,
                 earlier>>

\* ------------------------------------------------------------- the inputs
\* Sequences over S of length at most n.
RECURSIVE SeqsUpTo(_, _)
SeqsUpTo(S, n) ==
  IF n = 0 THEN {<<>>}
  ELSE LET shorter == SeqsUpTo(S, n - 1)
       IN shorter \cup {Append(q, e) : q \in shorter, e \in S}

Interval(a, b) == [i \in 1..(b - a + 1) |-> a + i - 1]
\* The arrays a domain is drawn from: the runs a..b of 1..MaxVal, and [].
Arrays == {Interval(a, b) : a \in 1..MaxVal, b \in 0..MaxVal}
ArrayDomains == {[isArray |-> TRUE, vals |-> d] : d \in Arrays}
NotAnArray == [isArray |-> FALSE, vals |-> <<>>]

Full == [isArray |-> TRUE, vals |-> Interval(1, MaxVal)]

BinPreds == {"lt", "neq"}
Arcs == {<<"x", "y">>, <<"y", "x">>, <<"y", "z">>, <<"z", "y">>}
BinCons == {[head |-> a[1], tail |-> a[2], pred |-> p] : a \in Arcs, p \in BinPreds}
NaryCons == {[vars |-> <<"x", "y", "z">>, pred |-> "alldiff"],
             [vars |-> <<"x", "y", "z">>, pred |-> "sumodd"],
             [vars |-> <<"z", "y">>, pred |-> "alldiff"],
             [vars |-> <<"z", "y">>, pred |-> "throws"]}

Notify == {[cb |-> FALSE, timeStep |-> 0], [cb |-> TRUE, timeStep |-> 2]}

Problems(vs, bs, ns, os) ==
  {[variables |-> v, constraints |-> b, naryConstraints |-> n,
    cb |-> o.cb, timeStep |-> o.timeStep] : v \in vs, b \in bs, n \in ns, o \in os}

\* Any domains, under at most one constraint of each kind.
ByDomain ==
  Problems([NameSet -> ArrayDomains], SeqsUpTo(BinCons, 1), SeqsUpTo(NaryCons, 1), Notify)
\* Full domains, under any binary constraints or any n-ary constraints.
ByBinary ==
  Problems({[k \in NameSet |-> Full]}, SeqsUpTo(BinCons, MaxBin), {<<>>}, Notify)
ByNary ==
  Problems({[k \in NameSet |-> Full]}, {<<>>}, SeqsUpTo(NaryCons, MaxNary), Notify)
WellFormed == ByDomain \cup ByBinary \cup ByNary

\* Problems that may break a rule of validation: a domain that is no array,
\* a constraint on an undeclared name, a predicate that is no function, an
\* n-ary constraint without participants.
RawBin == {[head |-> h, tail |-> t, pred |-> p] :
             h \in {"x", Undeclared}, t \in {"y", Undeclared}, p \in {"lt", "none"}}
RawNary == {[vars |-> <<"x", Undeclared>>, pred |-> "alldiff"],
            [vars |-> <<>>, pred |-> "alldiff"],
            [vars |-> <<"x", "y">>, pred |-> "none"]}
Malformed ==
  Problems([NameSet -> {Full, NotAnArray}], SeqsUpTo(RawBin, MaxBin),
           SeqsUpTo(RawNary, MaxNary), {[cb |-> TRUE, timeStep |-> 0]})

Inputs == WellFormed \cup Malformed

\* Before CSP.solve has normalised its argument.
NoProblem == [variables |-> EmptyMap, constraints |-> <<>>, naryConstraints |-> <<>>,
              timeStep |-> 1, cb |-> FALSE, naryIndex |-> buildNaryIndex(<<>>)]

InitWith(inputs) ==
  /\ input \in inputs
  /\ csp = NoProblem
  /\ pc = "idle"
  /\ stack = <<>>
  /\ ret = NoRet
  /\ result = NoResult
  /\ stepCounter = 0
  /\ timers = <<>>
  /\ pass = Idle
  /\ passes = <<>>
  /\ delivered = <<>>
  /\ earlier = <<>>

Init == InitWith(Inputs)

Next ==
  \/ Solve \/ Enter \/ Try \/ AC3Step \/ GACStep \/ Branch \/ Resume \/ Exhausted
  \/ Finish \/ Deliver

Spec == Init /\ [][Next]_vars

\* CSP.solve called a second time, once the first call has returned, on the
\* same problem with or without the callback.  Nothing but stepCounter and
\* the timers that were set outlives a call.
Again ==
  /\ pc = "done" /\ earlier = <<>>
  /\ earlier' = <<[cb |-> input.cb, result |-> result, steps |-> stepCounter,
                   timers |-> Len(timers)]>>
  /\ \E c \in BOOLEAN : input' = [input EXCEPT !.cb = c]
  /\ csp' = NoProblem
  /\ pc' = "idle"
  /\ result' = NoResult
  /\ UNCHANGED <<stack, ret, stepCounter, timers, pass, passes, delivered>>

TwiceInputs == {p \in ByDomain : p.cb}
NextTwice == Next \/ Again
SpecTwice == InitWith(TwiceInputs) /\ [][NextTwice]_vars

\* CSP.solve is synchronous: once called it keeps taking its next step, which
\* is weak fairness of every action.  Solve, Enter, AC3Step and GACStep change
\* pc, the stack or the pass whenever their guard holds, so the guard is
\* ENABLED <<A>>_vars and the four formulas below are WF_vars(Solve),
\* WF_vars(Enter), WF_vars(AC3Step) and WF_vars(GACStep) with ENABLED written
\* out.
SolveRuns == []<>(pc # "idle") \/ []<><<Solve>>_vars
EnterRuns == []<>(~EnterEnabled) \/ []<><<Enter>>_vars
AC3Runs == []<>(pass.phase # "ac3") \/ []<><<AC3Step>>_vars
GACRuns == []<>(pass.phase # "gac") \/ []<><<GACStep>>_vars
\* Termination does not depend on the delay of the notifications.
LiveInputs == {p \in Inputs : p.timeStep = 0}
FairSpec ==
  /\ InitWith(LiveInputs) /\ [][Next]_vars
  /\ SolveRuns /\ EnterRuns /\ WF_vars(Try) /\ AC3Runs /\ GACRuns
  /\ WF_vars(Branch) /\ WF_vars(Resume) /\ WF_vars(Exhausted) /\ WF_vars(Finish)

\* --------------------------------------------- the consistency engine alone
\* enforceConsistency run on the domains of a problem, and once more on its
\* own result.
CEStart ==
  /\ pc = "ce" /\ pass.phase = "idle" /\ Len(passes) < 2
  /\ IF passes = <<>> THEN TRUE ELSE passes[Len(passes)].ok
  /\ pass' = StartPass(IF passes = <<>>
                       THEN partialAssignment(EmptyMap, cloneVars(arrays(csp.variables)))
                       ELSE partialAssignment(EmptyMap, passes[Len(passes)].vars), csp)
  /\ UNCHANGED <<input, csp, pc, stack, ret, result, stepCounter, timers, passes, delivered, earlier>>

CEDone ==
  /\ pc = "ce" /\ pass.phase \in {"ok", "fail"}
  /\ passes' = Append(passes, [ok |-> pass.phase = "ok", vars |-> pass.variables])
  /\ pass' = Idle
  /\ UNCHANGED <<input, csp, pc, stack, ret, result, stepCounter, timers, delivered, earlier>>

Quiet == {[cb |-> FALSE, timeStep |-> 0]}
EngineInputs ==
  Problems([NameSet -> ArrayDomains], SeqsUpTo(BinCons, 1), SeqsUpTo(NaryCons, 1), Quiet)
  \cup Problems({[k \in NameSet |-> Full]}, SeqsUpTo(BinCons, MaxBin), {<<>>}, Quiet)
  \cup Problems({[k \in NameSet |-> Full]}, {<<>>}, SeqsUpTo(NaryCons, MaxNary), Quiet)

InitCE ==
  /\ input \in EngineInputs
  /\ csp = Prepared(normalizeProblem(input))
  /\ pc = "ce"
  /\ stack = <<>>
  /\ ret = NoRet
  /\ result = NoResult
  /\ stepCounter = 0
  /\ timers = <<>>
  /\ pass = Idle
  /\ passes = <<>>
  /\ delivered = <<>>
  /\ earlier = <<>>

NextCE == CEStart \/ AC3Step \/ GACStep \/ CEDone

SpecCE == InitCE /\ [][NextCE]_vars

\* runGAC alone, on wider domains (values 1..MaxVal + 1) under two n-ary
\* constraints, so that a constraint is found waiting in the queue and
\* domains of several values are pruned.
WideDomains ==
  {[isArray |-> TRUE, vals |-> Interval(a, b)] : a \in 1..(MaxVal + 1), b \in 0..(MaxVal + 1)}
WideInputs ==
  Problems([NameSet -> WideDomains], {<<>>}, {<<C, D>> : C \in NaryCons, D \in NaryCons},
           Quiet)
InitWide ==
  /\ input \in WideInputs
  /\ csp = Prepared(normalizeProblem(input))
  /\ pc = "ce"
  /\ stack = <<>>
  /\ ret = NoRet
  /\ result = NoResult
  /\ stepCounter = 0
  /\ timers = <<>>
  /\ pass = Idle
  /\ passes = <<>>
  /\ delivered = <<>>
  /\ earlier = <<>>
NextWide == CEStart \/ GACStep \/ CEDone
SpecWide == InitWide /\ [][NextWide]_vars

\* ------------------------------------------------------------- properties
Declared == DOMAIN input.variables
\* The initial domain of a declared variable.
InitialDomain(k) == IF input.variables[k].isArray THEN input.variables[k].vals ELSE <<>>
Terminal == pc \in {"done", "error"}

\* The binary and the n-ary constraints of the input hold under s.
BinaryHolds(s) ==
  \A i \in 1..Len(input.constraints) :
     IsFunction(input.constraints[i].pred) =>
       /\ input.constraints[i].head \in DOMAIN s
       /\ input.constraints[i].tail \in DOMAIN s
       /\ Pred2(input.constraints[i].pred, s[input.constraints[i].head],
                s[input.constraints[i].tail])
NaryHolds(s) ==
  \A i \in 1..Len(input.naryConstraints) :
     IsFunction(input.naryConstraints[i].pred) =>
       /\ Range(input.naryConstraints[i].vars) \subseteq DOMAIN s
       /\ PredN(input.naryConstraints[i].pred,
                [k \in Range(input.naryConstraints[i].vars) |-> s[k]]) = "T"
\* The total assignments over the initial domains that satisfy every constraint.
Solutions ==
  {s \in [Declared -> 1..MaxVal] :
     /\ \A k \in Declared : s[k] \in Range(InitialDomain(k))
     /\ BinaryHolds(s)
     /\ NaryHolds(s)}

C2_Completeness ==
  (pc = "done" /\ result.kind = FAILURE) => Solutions = {}
\* FAILURE came out of a search over domains of several values each, after
\* more than one value was tried.
C2_Witness ==
  /\ pc = "done" /\ result.kind = FAILURE
  /\ \A k \in Declared : Len(InitialDomain(k)) > 1
  /\ stepCounter > 1

\* C3: termination of solve: every call reaches a terminal outcome (an
\* assignment, FAILURE, or a validation error); the loops of runAC3 and of
\* runGAC each end after finitely many pops; and the calls of backtrack nested
\* below the top-level call are never more than the declared variables.
C3_Termination ==
  /\ <>Terminal
  /\ [](pass.phase = "ac3" => <>(pass.phase # "ac3"))
  /\ [](pass.phase = "gac" => <>(pass.phase # "gac"))
  /\ [](Len(stack) <= Cardinality(Declared) + 1)
\* A search under both kinds of constraints that backed up has ended.
C3_Witness ==
  /\ pc = "done" /\ result.kind = FAILURE
  /\ csp.constraints # <<>> /\ csp.naryConstraints # <<>>
  /\ stepCounter > Cardinality(Declared)

\* C4: for a problem with no binary and no n-ary constraints in which every
\* domain is non-empty, CSP.solve never returns FAILURE: it returns an
\* assignment that gives each variable a value of its own domain.
Unconstrained ==
  /\ input.constraints = <<>> /\ input.naryConstraints = <<>>
  /\ \A k \in Declared : Len(InitialDomain(k)) > 0
C4_Unconstrained ==
  /\ Unconstrained => ret.kind # FAILURE
  /\ (Unconstrained /\ Terminal) =>
       /\ result.kind = "assignment"
       /\ \A k \in Declared : result.val[k] \in Range(InitialDomain(k))
\* An unconstrained problem over domains of different sizes was solved.
C4_Witness ==
  /\ Unconstrained /\ pc = "done" /\ result.kind = "assignment"
  /\ \E j, k \in Declared : Len(InitialDomain(j)) < Len(InitialDomain(k))

\* C5: when some variable's initial domain is empty, CSP.solve returns
\* FAILURE (or throws a structural error) and never returns an assignment,
\* whichever variable the scan of selectUnassignedVariable selects first.
SomeEmpty == \E k \in Declared : input.variables[k].isArray /\ InitialDomain(k) = <<>>
C5_EmptyDomain ==
  SomeEmpty =>
    /\ result.kind # "assignment"
    /\ Terminal => result.kind \in {FAILURE, "error"}
\* FAILURE came out although a domain of size 1 ended the scan before the
\* empty domain was seen: a value was tried before the search gave up.
C5_Witness ==
  /\ SomeEmpty /\ pc = "done" /\ result.kind = FAILURE
  /\ \E i, j \in 1..Len(Names) :
        /\ i < j
        /\ Len(InitialDomain(Names[i])) = 1
        /\ InitialDomain(Names[j]) = <<>>
        /\ \A h \in 1..(i - 1) : Len(InitialDomain(Names[h])) > 1
  /\ stepCounter > 0

\* C6: a result other than FAILURE has exactly one entry for every declared
\* variable, and each entry is a bare value that is a member of that
\* variable's initial domain.
C6_Shape ==
  result.kind = "assignment" =>
    /\ DOMAIN result.val = Declared
    /\ \A k \in Declared : result.val[k] \in Range(InitialDomain(k))
\* An assignment was returned for domains that were not all singletons.
C6_Witness ==
  /\ result.kind = "assignment"
  /\ \E k \in Declared : Len(InitialDomain(k)) > 1
  /\ csp.constraints # <<>>

\* C7: a binary constraint that names a head or a tail absent from the
\* variable mapping makes CSP.solve throw an UnknownVariable error before
\* any search step: no tentative assignment is made, the step counter is not
\* incremented and no notification is scheduled.
NamesUnknown ==
  \E i \in 1..Len(input.constraints) :
     input.constraints[i].head \notin Declared \/ input.constraints[i].tail \notin Declared
C7_UnknownVariable ==
  (NamesUnknown /\ pc # "idle") =>
    /\ pc = "error" /\ result.err.kind = "UnknownVariable"
    /\ stack = <<>> /\ stepCounter = 0 /\ timers = <<>>

\* C8: when some variable's domain is not an array, CSP.solve throws an
\* InvalidDomain error that names that variable, before search starts, and
\* returns neither an assignment nor FAILURE.
NotArrays == {k \in Declared : ~input.variables[k].isArray}
C8_InvalidDomain ==
  (NotArrays # {} /\ pc # "idle") =>
    /\ pc = "error" /\ result.err.kind = "InvalidDomain"
    /\ result.err.name \in NotArrays
    /\ stepCounter = 0

\* C9: when a binary constraint of the input has no callable predicate,
\* CSP.solve throws a MissingPredicate error before search starts: the
\* constraint is not dropped from the problem and search does not run.
\* Stated for inputs without any other defect.
OnlyPredicateMissing ==
  /\ NotArrays = {} /\ ~NamesUnknown
  /\ input.naryConstraints = <<>>
  /\ \E i \in 1..Len(input.constraints) : ~IsFunction(input.constraints[i].pred)
C9_MissingPredicate ==
  (OnlyPredicateMissing /\ pc # "idle") =>
    /\ pc = "error" /\ result.err.kind = "MissingPredicate"
    /\ Len(csp.constraints) = Len(input.constraints)
    /\ stepCounter = 0

\* C10: idempotence of the consistency engine: when enforceConsistency
\* succeeds on a mapping with result M', enforceConsistency on M' succeeds
\* and returns exactly M'.
C10_Idempotent ==
  (Len(passes) >= 2 /\ passes[1].ok) => passes[2].ok /\ passes[2].vars = passes[1].vars

\* The mapping the pass of enforceConsistency under way started from.
PassStart ==
  IF pc = "ce"
  THEN IF passes = <<>> THEN cloneVars(arrays(csp.variables))
       ELSE passes[Len(passes)].vars
  ELSE partialAssignment(Top.assigned, Top.unassigned)
\* a is b with some of its elements left out.
RECURSIVE IsSubSeq(_, _)
IsSubSeq(a, b) ==
  IF a = <<>> THEN TRUE
  ELSE IF b = <<>> THEN FALSE
  ELSE IF Head(a) = Head(b) THEN IsSubSeq(Tail(a), Tail(b))
  ELSE IsSubSeq(a, Tail(b))

\* C11: domain monotonicity within a consistency pass: after every turn of the
\* loops of runAC3 and runGAC, and in the mapping enforceConsistency returns,
\* the variables of the mapping are those at the start of the pass and each
\* domain is a sub-sequence of the domain at the start of the pass.
C11_Monotone ==
  pass.phase # "idle" =>
    /\ DOMAIN pass.variables = DOMAIN PassStart
    /\ \A k \in DOMAIN PassStart :
         /\ IsSubSeq(pass.variables[k], PassStart[k])
         /\ Len(pass.variables[k]) <= Len(PassStart[k])
\* A pass under both kinds of constraints has succeeded after pruning two
\* domains.
C11_Witness ==
  /\ pass.phase = "ok"
  /\ csp.constraints # <<>> /\ csp.naryConstraints # <<>>
  /\ \E j, k \in DOMAIN PassStart :
        /\ j # k
        /\ Len(pass.variables[j]) < Len(PassStart[j])
        /\ Len(pass.variables[k]) < Len(PassStart[k])

\* C12: the progress notification is purely observational: no callback runs
\* while a search is in progress (each runs only after CSP.solve has
\* returned), and CSP.solve returns the same value for a problem with a
\* callback configured and for the same problem without one.
C12_Observational ==
  /\ []((pc = "done" /\ earlier # <<>>) =>
          (earlier[1].cb # input.cb => result = earlier[1].result))
  /\ [][delivered' # delivered => (pc = "done" /\ stack = <<>>)]_vars
\* The call without the callback has returned an assignment found after
\* backing up, the call with the callback had set timers, and one has run.
C12_Witness ==
  /\ pc = "done" /\ earlier # <<>>
  /\ earlier[1].cb /\ ~input.cb
  /\ earlier[1].timers > Cardinality(Declared)
  /\ result.kind = "assignment"
  /\ delivered # <<>>

\* C13: ordering of the notifications of one call: each is scheduled with
\* the delay stepCounter * timeStep of its tentative assignment, so the delays
\* strictly increase in scheduling order, and the callbacks run in the order
\* in which their tentative assignments were made.
C13_Ordered ==
  /\ \A i \in 1..Len(timers) :
       /\ timers[i].delay >= i * csp.timeStep
       /\ timers[i].delay <= stepCounter * csp.timeStep
  /\ \A i, j \in 1..Len(timers) : i < j => timers[i].delay < timers[j].delay
  /\ \A n \in 1..Len(delivered) : delivered[n] = n
\* Three or more notifications, not all of consecutive steps, have all run.
C13_Witness ==
  /\ pc = "done" /\ Len(timers) >= 3 /\ Len(delivered) = Len(timers)
  /\ csp.timeStep > 1
  /\ \E i \in 2..Len(timers) : timers[i].delay > timers[i - 1].delay + csp.timeStep

\* C14: with a callback configured, a notification is scheduled exactly once
\* for every tentative assignment the search makes: the number of timers set
\* during a call equals the number of increments of the step counter.
C14_OncePerAssignment ==
  (csp.cb /\ pc \in {"search", "done"} /\ (stack # <<>> => Top.at # "consistency")) =>
    Len(timers) = stepCounter

\* C15: snapshot integrity of a pending notification: the unassigned mapping
\* a callback is called with equals the split computed at the moment of its
\* tentative assignment, whatever the search did between scheduling and
\* delivery, on dead branches and on the branch that leads to the solution.
C15_Snapshot ==
  \A n \in 1..Len(delivered) :
     timers[delivered[n]].U = timers[delivered[n]].split

\* Every value left in the tail's domain of the binary constraint c has a
\* supporting value in the head's domain.
TailSupported(c, M) ==
  \A t \in Range(M[c.tail]) : \E h \in Range(M[c.head]) : Pred2(c.pred, h, t)
ArcConsistent(M) ==
  \A i \in 1..Len(csp.constraints) :
     (csp.constraints[i].head \in DOMAIN M /\ csp.constraints[i].tail \in DOMAIN M)
       => TailSupported(csp.constraints[i], M)

\* C16: AC-3 fixpoint: when runAC3 returns success, for every binary
\* constraint (head, tail, p) every value t left in the tail's domain has a
\* value h in the head's domain with p(h, t).
C16_AC3Fixpoint ==
  [][(pass.phase = "ac3" /\ pass'.phase \in {"gac", "ok"})
       => ArcConsistent(pass'.variables)]_vars
\* runAC3 has succeeded on two constraints, the first of which has the
\* second's tail as its head and had nothing to prune at the start: its
\* tail was pruned after the constraint was enqueued again.
C16_Witness ==
  /\ pass.phase = "ok" /\ csp.naryConstraints = <<>> /\ Len(csp.constraints) = 2
  /\ csp.constraints[1].head = csp.constraints[2].tail
  /\ TailSupported(csp.constraints[1], PassStart)
  /\ Len(pass.variables[csp.constraints[1].tail])
       < Len(PassStart[csp.constraints[1].tail])

\* Some choice of one value from M's domain of every participant of C, with
\* the value a for v, satisfies C's predicate.
Tuples(C, M, v, a) ==
  {s \in [Range(C.vars) \cup {v} -> 1..(MaxVal + 1)] :
     /\ s[v] = a
     /\ \A k \in Range(C.vars) \ {v} : k \in DOMAIN M /\ s[k] \in Range(M[k])}
Extendable(C, M, v, a) ==
  \E s \in Tuples(C, M, v, a) : PredN(C.pred, [k \in Range(C.vars) |-> s[k]]) = "T"
GACConsistent(M) ==
  \A i \in 1..Len(csp.naryConstraints) :
     \A v \in Range(csp.naryConstraints[i].vars) \cap DOMAIN M :
        \A a \in Range(M[v]) : Extendable(csp.naryConstraints[i], M, v, a)

\* C17: GAC fixpoint: when runGAC returns success, for every n-ary constraint
\* C, every participant v of C and every value a left in v's domain, some
\* choice of one value from the final domain of each other participant of C
\* satisfies C's predicate together with v = a.
C17_GACFixpoint ==
  [][(pass.phase = "gac" /\ pass'.phase = "ok") => GACConsistent(pass'.variables)]_vars
\* runGAC has succeeded after removing a value of the first participant of
\* the first constraint, which the second constraint does not name, although
\* the value had support at the start: the first constraint was enqueued
\* again while the second was waiting in the queue.
C17_Witness ==
  /\ pass.phase = "ok" /\ Len(csp.naryConstraints) = 2
  /\ csp.naryConstraints[1].vars[1] \notin Range(csp.naryConstraints[2].vars)
  /\ \E a \in Range(PassStart[csp.naryConstraints[1].vars[1]]) :
        /\ a \notin Range(pass.variables[csp.naryConstraints[1].vars[1]])
        /\ Extendable(csp.naryConstraints[1], PassStart, csp.naryConstraints[1].vars[1], a)

\* The total assignments that take every variable's value from its domain in M
\* and satisfy every binary and every n-ary constraint without raising.
SolutionsIn(M) ==
  {s \in [DOMAIN M -> 1..(MaxVal + 1)] :
     /\ \A k \in DOMAIN M : s[k] \in Range(M[k])
     /\ BinaryHolds(s)
     /\ NaryHolds(s)}
\* s is still a choice from the domains of M.
Within(s, M) == \A k \in DOMAIN s : k \in DOMAIN M /\ s[k] \in Range(M[k])

\* C18: pruning never loses a solution: for every domain mapping M that
\* enforceConsistency is run on and every total assignment s drawn from M that
\* satisfies every binary and every n-ary constraint, the pass does not end in
\* FAILURE and s(v) stays in the domain of v, at every step up to the return.
C18_NoSolutionLost ==
  pass.phase # "idle" =>
    \A s \in SolutionsIn(PassStart) : pass.phase # "fail" /\ Within(s, pass.variables)
\* A pass over a binary and an n-ary constraint returned success having
\* removed values, with a solution among the domains it started from.
C18_Witness ==
  /\ pass.phase = "ok"
  /\ Len(csp.constraints) > 0 /\ Len(csp.naryConstraints) > 0
  /\ pass.variables # PassStart
  /\ SolutionsIn(PassStart) # {}

\* M with only the domains of the variables in D present.
Restrict(M, D) == [k \in D |-> M[k]]
\* Every participant of C other than v has a present, non-empty domain in M.
OthersPresent(C, M, v) ==
  \A k \in Range(C.vars) \ {v} : k \in DOMAIN M /\ Len(M[k]) > 0
\* The other participants of C, and the orders they can be searched in.
OthersOf(C, v) == LET notFocus(k) == k # v IN Filter(C.vars, notFocus)
Orders(others) ==
  {p \in [1..Len(others) -> Range(others)] : Range(p) = Range(others)}
\* The answer h of hasSupport(v, a, C, M) is the one the reference gives, and
\* the one every search order gives.
Agrees(h, C, M, v, a) ==
  IF OthersPresent(C, M, v)
  THEN /\ h <=> Extendable(C, M, v, a)
       /\ \A p \in Orders(OthersOf(C, v)) : SearchTuples(v, a, C, M, p) = h
  ELSE ~h
OracleCorrect(C, M, v, a) == Agrees(hasSupport(v, a, C, M), C, M, v, a)

\* C19: Support Oracle correctness: on the domains of a running GAC pass, and
\* on the same domains with any of the variables missing, hasSupport(v, a, C, M)
\* is true exactly when every other participant of C has a present, non-empty
\* domain and some tuple with v = a and one value from the domain of each
\* other participant satisfies C's predicate; searching the other
\* participants in any other order gives the same answer.
C19_OracleCorrect ==
  pass.phase = "gac" =>
    \A i \in 1..Len(csp.naryConstraints) :
       \A v \in Range(csp.naryConstraints[i].vars) :
          \A a \in 1..(MaxVal + 1) :
             \A D \in SUBSET DOMAIN pass.variables :
                OracleCorrect(csp.naryConstraints[i], Restrict(pass.variables, D), v, a)
\* A GAC pass that has pruned, on a constraint of three participants whose
\* search order differs from the declaration order (y's domain larger than
\* z's), where one value of x has support and another, with both other
\* domains non-empty, has none.
C19_Witness ==
  /\ pass.phase = "gac"
  /\ pass.variables # PassStart
  /\ \E i \in 1..Len(csp.naryConstraints) :
        /\ csp.naryConstraints[i].vars = <<"x", "y", "z">>
        /\ Len(pass.variables["y"]) > Len(pass.variables["z"])
        /\ Len(pass.variables["z"]) > 0
        /\ \E a \in 1..(MaxVal + 1) :
              hasSupport("x", a, csp.naryConstraints[i], pass.variables)
        /\ \E a \in 1..(MaxVal + 1) :
              ~hasSupport("x", a, csp.naryConstraints[i], pass.variables)

\* C's predicate raises on some tuple with v = a drawn from the domains of M.
Raises(C, M, v, a) ==
  \E s \in Tuples(C, M, v, a) : PredN(C.pred, [k \in Range(C.vars) |-> s[k]]) = "E"
\* The input passes validation.
Valid == Checked.kind = "none"

\* C20: fail-closed n-ary predicates: where an n-ary predicate raises on a
\* tuple of the current domains, hasSupport answers as if that tuple did not
\* satisfy the predicate: true exactly when another tuple satisfies it without
\* raising; and solve ends in an error only for an input that validation
\* rejects, never because a predicate raised.
C20_FailClosed ==
  /\ pass.phase = "gac" =>
       \A i \in 1..Len(csp.naryConstraints) :
          \A v \in Range(csp.naryConstraints[i].vars) \cap DOMAIN pass.variables :
             \A a \in Range(pass.variables[v]) :
                Raises(csp.naryConstraints[i], pass.variables, v, a) =>
                  (hasSupport(v, a, csp.naryConstraints[i], pass.variables)
                     <=> Extendable(csp.naryConstraints[i], pass.variables, v, a))
  /\ pc = "error" => ~Valid
\* In a GAC pass of the search the predicate raises on one tuple of z = 1 and
\* another tuple satisfies it, so z = 1 has support.
C20_Witness ==
  /\ pass.phase = "gac" /\ stack # <<>>
  /\ \E i \in 1..Len(csp.naryConstraints) :
        /\ "z" \in DOMAIN pass.variables
        /\ 1 \in Range(pass.variables["z"])
        /\ Raises(csp.naryConstraints[i], pass.variables, "z", 1)
        /\ hasSupport("z", 1, csp.naryConstraints[i], pass.variables)

\* The variable frame f selected is a smallest one of the unassigned mapping
\* it scanned (f.unassigned and the selected variable itself), and the first
\* in key order among those of that size.
SmallestFirst(f) ==
  \A j \in DOMAIN f.unassigned \ {f.nextKey} :
     \/ Len(f.savedDom) < Len(f.unassigned[j])
     \/ Len(f.savedDom) = Len(f.unassigned[j]) /\ Pos(f.nextKey) < Pos(j)

\* C21: MRV variable selection: the variable selectUnassignedVariable returned
\* for a frame has a domain of the minimum size over all unassigned variables
\* of that frame, and is the first in encounter order among those of that size.
C21_MRV ==
  \A d \in 1..Len(stack) : stack[d].at # "enter" => SmallestFirst(stack[d])

\* The assignment frame f inherited: its own without the selected variable.
Inherited(f) == Delete(f.assigned, f.nextKey)
\* The score of value val for frame f: the total size of all domains after a
\* consistency pass with val tentatively fixed, Eliminated if the pass fails
\* or leaves an empty domain.
FrameScore(f, val) == scoreOf(val, f.nextKey, Inherited(f), f.unassigned, csp)
\* Position of val in the sequence q of distinct values.
At(q, val) == CHOOSE i \in 1..Len(q) : q[i] = val
\* q is the domain dom sorted by descending score, ties in dom's order.
OrderedBy(q, dom, sc) ==
  /\ Len(q) = Len(dom) /\ Range(q) = Range(dom)
  /\ \A i \in 1..Len(q) : \A j \in (i + 1)..Len(q) :
        \/ sc[q[i]] > sc[q[j]]
        \/ sc[q[i]] = sc[q[j]] /\ At(dom, q[i]) < At(dom, q[j])
ValuesOrdered(f) ==
  OrderedBy(f.values, f.savedDom, [val \in Range(f.savedDom) |-> FrameScore(f, val)])

SameFrame(f, g) ==
  /\ g.unassigned = f.unassigned
  /\ Inherited(g) = Inherited(f)
  /\ g.nextKey = f.nextKey /\ g.values = f.values /\ g.savedDom = f.savedDom
\* g is frame f once it has selected its variable and ordered the values by
\* lookahead: f's assignment, and f's unassigned domains less the selected one.
AfterLookahead(f, g) ==
  /\ g.assigned = f.assigned
  /\ g.nextKey \in DOMAIN f.unassigned
  /\ g.savedDom = f.unassigned[g.nextKey]
  /\ g.unassigned = Delete(f.unassigned, g.nextKey)
\* The state handed to the consistency pass for the candidate frame f is at.
Handed(f) ==
  partialAssignment(Put(Inherited(f), f.nextKey, <<f.values[f.i]>>), f.unassigned)

\* C23: branch-local state: in every step, each frame of backtrack that is in
\* its for loop keeps its inherited assignment and its unassigned domains
\* (whatever the pass or a recursive call that failed did), the lookahead of
\* orderValues leaves them as they were but for the selected variable,
\* and the pass started for a candidate value is handed the inherited
\* assignment plus that value and the frame's unassigned domains.
C23_BranchLocal ==
  [][\A d \in 1..Len(stack) :
       /\ (d <= Len(stack') /\ stack[d].at # "enter") =>
            /\ SameFrame(stack[d], stack'[d])
            /\ (stack[d].at = "loop" /\ stack'[d].at = "consistency") =>
                 pass'.variables = Handed(stack'[d])
       /\ (d <= Len(stack') /\ stack[d].at = "enter" /\ stack'[d].at = "loop") =>
            AfterLookahead(stack[d], stack'[d])]_vars
\* The outermost frame starts the pass for its second candidate value after
\* the recursive call for its first one made further tentative assignments
\* and returned FAILURE.
C23_Witness ==
  /\ Len(stack) = 1 /\ Top.at = "consistency" /\ Top.i = 2
  /\ stepCounter >= 3
  /\ pass.phase # "idle" /\ PassStart = Handed(Top)

\* The value of the step counter when the present call of CSP.solve began if
\* the counter were reset per call, offset by what earlier calls left in it.
StepsBefore == IF earlier = <<>> THEN 0 ELSE earlier[1].steps

\* C24: step-counter lifecycle: the notification of the k-th tentative
\* assignment of a call of CSP.solve is scheduled with delay k * timeStep,
\* however many tentative assignments an earlier call made.
C24_ResetPerCall ==
  [][Len(timers') > Len(timers) =>
       timers'[Len(timers')].delay = (stepCounter - StepsBefore) * csp.timeStep]_vars

\* What holds of the arguments f of an invocation of backtrack.
Disjoint(f) == DOMAIN f.assigned \cap DOMAIN f.unassigned = {}
Covering(f) == DOMAIN f.assigned \cup DOMAIN f.unassigned = Declared
Singletons(f) == \A k \in DOMAIN f.assigned : Len(f.assigned[k]) = 1
Narrowed(f) ==
  \A k \in DOMAIN f.unassigned :
     /\ Len(f.unassigned[k]) > 0
     /\ Range(f.unassigned[k]) \subseteq Range(InitialDomain(k))
\* The caller p moved exactly its selected variable to the assigned ones.
OneMoved(p, f) ==
  /\ p.nextKey \notin DOMAIN Inherited(p)
  /\ DOMAIN f.assigned = DOMAIN Inherited(p) \cup {p.nextKey}
  /\ DOMAIN f.unassigned = DOMAIN p.unassigned
  /\ p.nextKey \notin DOMAIN f.unassigned

====
